---------------------------- MODULE Spec2Model ----------------------------
(***************************************************************************)
(* Model of src/autoheartwatch.py: the PPG heart-rate core (Biquad, PTAGC,  *)
(* PPG.preprocess, PPG._get_heart_rate, PPG.get_heart_rate, enable_debug).  *)
(*                                                                         *)
(* Numbers.  The filters of the source run on floating point.  Here every  *)
(* filter value is a decimal fixed-point number with three fractional      *)
(* digits (an integer scaled by Q) and every coefficient one with six     *)
(* (scaled by CQ); products and quotients are rounded to nearest, as the   *)
(* floating-point unit rounds.  The sample buffer itself holds integers,   *)
(* exactly as array.array("b") does.                                       *)
(***************************************************************************)
EXTENDS Integers, Sequences, FiniteSets, TLC

VARIABLES
    ppg,        \* the PPG session under test
    ref,        \* a second PPG session, same offset, same calls, debug never enabled
    ret,        \* what the last call on ppg returned
    refRet,     \* what the last call on ref returned
    op,         \* the last operation called
    sensor,     \* which sensor signal drives the session (0: any sample each tick)
    n,          \* number of samples read from the sensor so far
    hrs_data,   \* the chunks written to the file "hrs.data"
    est,        \* trace of the estimator run of the last call, if it was one
    agc,        \* a PTAGC object stepped on its own (SpecAgc)
    fn          \* the last call of a pure function and its result (SpecFn, SpecAgc)

vars == <<ppg, ref, ret, refRet, op, sensor, n, hrs_data, est, agc, fn>>

-----------------------------------------------------------------------------
(* Bounds of the model *)

\* samples a scripted sensor delivers to one session
MaxSamples == 201
\* samples the free sensor delivers to one session
MaxFree == 4
\* enable_debug may be called until this many samples were read
MaxEnableAt == 0
\* steps of the stand-alone PTAGC object
MaxAgcSteps == 8
\* longest buffer handed to the pure functions
MaxFnLen == 6
\* the sensor's steady-state reading, the session's offset
Baseline == 1000

-----------------------------------------------------------------------------
(* Values *)

\* Python's None, and an integer return value
None == <<>>
Some(v) == <<v>>

Abs(x) == IF x < 0 THEN -x ELSE x

\* fixed-point scale of filter values and of coefficients
Q == 10 ^ 3
CQ == 10 ^ 6

\* a \div b rounded to nearest, for a >= 0, b > 0
RDiv(a, b) == (a + (b \div 2)) \div b

\* the product of coefficient c (scaled by CQ) and value v (scaled by Q),
\* scaled by Q; computed in two parts to stay within 32 bits
Mul(c, v) ==
    LET s  == IF (c >= 0) = (v >= 0) THEN 1 ELSE -1
        ac == Abs(c)
        av == Abs(v)
        vh == av \div Q
        vl == av % Q
        hi == ac * vh
    IN  s * ((hi \div Q) + RDiv((hi % Q) * Q + ac * vl, CQ))

\* int(x) of a fixed-point x: truncation toward zero
IntOf(y) == IF y >= 0 THEN y \div Q ELSE -((-y) \div Q)

\* what array.array("b") keeps of an appended integer (MicroPython stores
\* the low byte without a range check)
ToInt8(x) == ((x + 128) % 256) - 128

\* what array.array("H") keeps of an appended integer
ToUint16(x) == x % 65536


-----------------------------------------------------------------------------
(* Biquad: Direct Form II biquad filter *)

\* Biquad(b0, b1, b2, a1, a2): the coefficients, and both delay registers 0
Biquad(b0, b1, b2, a1, a2) ==
    [coeff |-> <<b0, b1, b2, a1, a2>>, v1 |-> 0, v2 |-> 0]

\* Biquad.step(x): the filter after the step, and the output y
BiquadStep(self, x) ==
    LET c  == self.coeff
        v1 == self.v1
        v2 == self.v2
        v  == x - Mul(c[4], v1) - Mul(c[5], v2)
        y  == Mul(c[1], v) + Mul(c[2], v1) + Mul(c[3], v2)
    IN  [self |-> [self EXCEPT !.v2 = v1, !.v1 = v], y |-> y]

-----------------------------------------------------------------------------
(* PTAGC: peak tracking automatic gain control *)

\* PTAGC(start, decay, threshold); boost is 1 / decay (decay is a
\* coefficient, scaled by CQ, with three significant decimals)
PTAGC(start, decay, threshold) ==
    [peak |-> start, decay |-> decay, boost |-> RDiv(CQ * Q, decay \div Q),
     threshold |-> threshold]

\* Gain with the 2 of (2 * peak) left out: 100 * spl / peak
GainWithoutHalving(spl, peak) ==
    LET a == Abs(spl) * 100
        o == (a \div peak) * Q + RDiv((a % peak) * Q, peak)
    IN  IF spl >= 0 THEN o ELSE -o

\* 100 * spl / (2 * peak) of fixed-point spl and peak, as a fixed-point number
Gain(spl, peak) ==
    LET a == Abs(spl) * 50
        o == (a \div peak) * Q + RDiv((a % peak) * Q, peak)
    IN  IF spl >= 0 THEN o ELSE -o

\* the peak tracking of PTAGC.step
AgcTrack(self, spl) ==
    IF Abs(spl) > self.peak
    THEN Mul(self.boost, self.peak)
    ELSE Mul(self.decay, self.peak)

\* AgcReject testing against the peak as it was before the step
AgcRejectOldPeak(self, peak, spl) ==
    spl > self.peak * self.threshold \/ spl < self.peak * (-self.threshold)

\* the rejection filter of PTAGC.step: whether spl is clipped, given the
\* peak the step has just stored
AgcReject(self, peak, spl) ==
    spl > peak * self.threshold \/ spl < peak * (-self.threshold)

\* PTAGC.step(spl): the object after the step, and the output
AgcStep(self, spl) ==
    LET peak == AgcTrack(self, spl)
        new  == [self EXCEPT !.peak = peak]
    IN  IF AgcReject(self, peak, spl)
        THEN [self |-> new, y |-> 0]
        ELSE [self |-> new, y |-> Gain(spl, peak)]

-----------------------------------------------------------------------------
(* The dissimilarity metric and the trough search *)

\* the byte ptr8 reads where the array holds the signed value x
Ptr8(x) == x % 256

\* CompareTerm without the conversion of the bytes above 127 to negative
CompareTermUnsigned(d1, d2, i) ==
    LET d == Ptr8(d1[i]) - Ptr8(d2[i])
    IN  d * d

\* one pass of the loop of _compare: what index i (from 1) adds to e
CompareTerm(d1, d2, i) ==
    LET p1 == Ptr8(d1[i])
        s1 == IF p1 > 127 THEN p1 - 256 ELSE p1
        p2 == Ptr8(d2[i])
        s2 == IF p2 > 127 THEN p2 - 256 ELSE p2
        d  == s1 - s2
    IN  d * d

\* the loop of _compare over the indices lo .. hi: the sum of its terms,
\* added up by halves (the sum stays far below 2^31 for the buffers here,
\* so the order of the additions does not matter)
RECURSIVE CompareLoop(_, _, _, _)
CompareLoop(d1, d2, lo, hi) ==
    IF lo > hi
    THEN 0
    ELSE IF lo = hi
    THEN CompareTerm(d1, d2, lo)
    ELSE LET mid == (lo + hi) \div 2
         IN  CompareLoop(d1, d2, lo, mid) + CompareLoop(d1, d2, mid + 1, hi)

\* _compare(d1, d2, count, shift)
Compare_(d1, d2, count, shift) == CompareLoop(d1, d2, 1, count)

\* compare(d, shift) of _get_heart_rate, for shift >= 1:
\* d[shift:] and d[:-shift] are empty once shift >= len(d)
compare(d, shift) ==
    Compare_(SubSeq(d, shift + 1, Len(d)), SubSeq(d, 1, Len(d) - shift),
             Len(d) - shift, shift)

\* the loop of trough from shift i on; ev collects every shift handed to
\* compare
RECURSIVE TroughLoop(_, _, _, _, _, _)
TroughLoop(d, i, mx, z2, z1, ev) ==
    IF i > mx
    THEN [t |-> -1, ev |-> ev]
    ELSE LET z == compare(d, i)
         IN  IF z2 > z1 /\ z1 < z
             THEN [t |-> i, ev |-> ev \cup {i}]
             ELSE TroughLoop(d, i + 1, mx, z1, z, ev \cup {i})

\* trough(d, mn, mx): the shift found (or -1) and the shifts evaluated
trough(d, mn, mx) ==
    TroughLoop(d, mn, mx, compare(d, mn - 2), compare(d, mn - 1),
               {mn - 2, mn - 1})

\* the 200 of get_heart_rate, and the numbers of _get_heart_rate
MinSamples == 200
MinShift == 7
MaxShift == 48
SampleRate == 24

\* the result of _get_heart_rate: the value returned, the stage that
\* returned it, the troughs found so far and the shifts evaluated so far
Estimate(hr, stage, t, ev) == [hr |-> hr, stage |-> stage, t |-> t, ev |-> ev]

\* AfterT3 reporting four cycles over t2 when the fourth search failed
AfterT3FourCyclesOverT2(d, t, ev, r3) ==
    IF r3.t < 0
    THEN Estimate(Some((60 * SampleRate * 4) \div t[3]), "t2",
                  Append(t, r3.t), ev \cup r3.ev)
    ELSE Estimate(Some((60 * SampleRate * 4) \div r3.t), "t3",
                  Append(t, r3.t), ev \cup r3.ev)

\* _get_heart_rate after the fourth search, r3 its result
AfterT3(d, t, ev, r3) ==
    IF r3.t < 0
    THEN Estimate(Some((60 * SampleRate * 3) \div t[3]), "t2",
                  Append(t, r3.t), ev \cup r3.ev)
    ELSE Estimate(Some((60 * SampleRate * 4) \div r3.t), "t3",
                  Append(t, r3.t), ev \cup r3.ev)

\* _get_heart_rate after the third search, r2 its result
AfterT2(d, t, ev, r2) ==
    IF r2.t < 0
    THEN Estimate(None, "t2_fail", Append(t, r2.t), ev \cup r2.ev)
    ELSE AfterT3(d, Append(t, r2.t), ev \cup r2.ev,
                 trough(d, (r2.t * 4) \div 3 - 4, (r2.t * 4) \div 3 + 4))

\* _get_heart_rate after the second search, r1 its result
AfterT1(d, t, ev, r1) ==
    IF r1.t < 0
    THEN Estimate(None, "t1_fail", Append(t, r1.t), ev \cup r1.ev)
    ELSE AfterT2(d, Append(t, r1.t), ev \cup r1.ev,
                 trough(d, (r1.t * 3) \div 2 - 5, (r1.t * 3) \div 2 + 4))

\* _get_heart_rate after the first search, r0 its result
AfterT0(d, r0) ==
    IF r0.t < 0
    THEN Estimate(None, "t0_fail", <<r0.t>>, r0.ev)
    ELSE AfterT1(d, <<r0.t>>, r0.ev, trough(d, r0.t * 2 - 5, r0.t * 2 + 5))

\* PPG._get_heart_rate() on buffer d
GetHeartRateInner(d) == AfterT0(d, trough(d, MinShift, MaxShift))

-----------------------------------------------------------------------------
(* PPG *)

\* PPG(spl): the session after construction
PPG(spl) ==
    [offset |-> spl,
     data   |-> <<>>,
     debug  |-> [on |-> FALSE, buf |-> <<>>],
     hpf    |-> Biquad(870331, -1740662, 870331, -1723776, 757547),
     agc    |-> PTAGC(20 * Q, 971 * Q, 2),
     lpf    |-> Biquad(115952, 231905, 115952, -721681, 185491)]

\* PPG.preprocess(spl): the session after the call and the value returned
Preprocess(self, spl) ==
    LET dbg == IF self.debug.on
               THEN [self.debug EXCEPT !.buf = Append(@, ToUint16(spl))]
               ELSE self.debug
        h   == BiquadStep(self.hpf, (spl - self.offset) * Q)
        a   == AgcStep(self.agc, h.y)
        l   == BiquadStep(self.lpf, a.y)
        out == IntOf(l.y)
    IN  [self |-> [self EXCEPT !.debug = dbg, !.hpf = h.self, !.agc = a.self,
                               !.lpf = l.self,
                               !.data = Append(@, ToInt8(out))],
         ret  |-> Some(out)]

\* AfterEstimate keeping the buffer when the estimator found no rate
AfterEstimateKeepsOnFailure(self, g) ==
    LET dump == self.debug.on /\ Len(self.debug.buf) > 0
    IN  [self |-> [self EXCEPT
                      !.data = IF g.hr = None THEN @ ELSE <<>>,
                      !.debug = IF dump THEN [on |-> TRUE, buf |-> <<>>]
                                        ELSE @],
         ret  |-> g.hr,
         dump |-> IF dump THEN <<self.debug.buf>> ELSE <<>>,
         est  |-> [stage |-> g.stage, t |-> g.t, ev |-> g.ev,
                   len |-> Len(self.data)]]

\* AfterEstimate with the clearing of the buffer moved into the debug branch
AfterEstimateClearsInDebugBranch(self, g) ==
    LET dump == self.debug.on /\ Len(self.debug.buf) > 0
    IN  [self |-> [self EXCEPT
                      !.data = IF dump THEN <<>> ELSE @,
                      !.debug = IF dump THEN [on |-> TRUE, buf |-> <<>>]
                                        ELSE @],
         ret  |-> g.hr,
         dump |-> IF dump THEN <<self.debug.buf>> ELSE <<>>,
         est  |-> [stage |-> g.stage, t |-> g.t, ev |-> g.ev,
                   len |-> Len(self.data)]]

\* the rest of PPG.get_heart_rate() once _get_heart_rate has returned g:
\* the buffer is replaced by an empty one and the debug data dumped
AfterEstimate(self, g) ==
    LET dump == self.debug.on /\ Len(self.debug.buf) > 0
    IN  [self |-> [self EXCEPT
                      !.data = <<>>,
                      !.debug = IF dump THEN [on |-> TRUE, buf |-> <<>>]
                                        ELSE @],
         ret  |-> g.hr,
         dump |-> IF dump THEN <<self.debug.buf>> ELSE <<>>,
         est  |-> [stage |-> g.stage, t |-> g.t, ev |-> g.ev,
                   len |-> Len(self.data)]]

\* GetHeartRate clearing the buffer before it tests its length
GetHeartRateClearsFirst(self) ==
    IF Len(self.data) < MinSamples
    THEN [self |-> [self EXCEPT !.data = <<>>], ret |-> None, dump |-> <<>>,
          est |-> [stage |-> "short", t |-> <<>>, ev |-> {},
                   len |-> Len(self.data)]]
    ELSE AfterEstimate(self, GetHeartRateInner(self.data))

\* PPG.get_heart_rate(): the session after the call, the value returned,
\* what the call appended to hrs.data, and the estimator's trace
GetHeartRate(self) ==
    IF Len(self.data) < MinSamples
    THEN [self |-> self, ret |-> None, dump |-> <<>>,
          est |-> [stage |-> "short", t |-> <<>>, ev |-> {},
                   len |-> Len(self.data)]]
    ELSE AfterEstimate(self, GetHeartRateInner(self.data))

\* PPG.enable_debug()
EnableDebug(self) ==
    IF ~self.debug.on
    THEN [self EXCEPT !.debug = [on |-> TRUE, buf |-> <<>>]]
    ELSE self

-----------------------------------------------------------------------------
(* The sensor: what wasp.watch.hrs.read_hrs() delivers *)

\* a triangle wave of period P and height A at sample k
Tri(k, P, A) ==
    LET j == k % P
        h == P \div 2
    IN  IF j < h THEN (A * j) \div h ELSE (A * (P - j)) \div (P - h)

\* the scripted sensor signals: a pulse train of period p1 that stops after
\* n0 samples, over a second train of period p2 and height a2 (p2 = 0: none)
Sensors ==
    << [p1 |-> 8,  a1 |-> 20, n0 |-> 240, p2 |-> 0,  a2 |-> 0],
       [p1 |-> 24, a1 |-> 20, n0 |-> 240, p2 |-> 0,  a2 |-> 0],
       [p1 |-> 6,  a1 |-> 20, n0 |-> 60,  p2 |-> 41, a2 |-> 10],
       [p1 |-> 6,  a1 |-> 20, n0 |-> 60,  p2 |-> 38, a2 |-> 5],
       [p1 |-> 6,  a1 |-> 20, n0 |-> 60,  p2 |-> 41, a2 |-> 5],
       [p1 |-> 6,  a1 |-> 20, n0 |-> 60,  p2 |-> 47, a2 |-> 10],
       [p1 |-> 30, a1 |-> 20, n0 |-> 60,  p2 |-> 47, a2 |-> 20],
       [p1 |-> 8,  a1 |-> 0,  n0 |-> 0,   p2 |-> 0,  a2 |-> 0] >>

\* sample k (from 0) of scripted sensor w
Wave(w, k) ==
    Baseline
    + (IF k < w.n0 THEN Tri(k, w.p1, w.a1) ELSE 0)
    + (IF w.p2 = 0 THEN 0 ELSE Tri(k, w.p2, w.a2))

\* the readings the free sensor may deliver at any tick
FreeSamples == {Baseline - 20, Baseline - 5, Baseline, Baseline + 5, Baseline + 20}

\* the readings the sensor may deliver as its sample k
Readings(w, k) ==
    IF w = 0
    THEN IF k < MaxFree THEN FreeSamples ELSE {}
    ELSE IF k < MaxSamples THEN {Wave(Sensors[w], k)} ELSE {}

-----------------------------------------------------------------------------
(* The session: Spec *)

NoEst == [stage |-> "none", t |-> <<>>, ev |-> {}, len |-> 0]
NoCall == [name |-> "none"]

\* the state after ppg = PPG(read_hrs()), with sensor w attached
InitSession(w) ==
    /\ sensor = w
    /\ ppg = PPG(Baseline)
    /\ ref = PPG(Baseline)
    /\ ret = None
    /\ refRet = None
    /\ op = "init"
    /\ n = 0
    /\ hrs_data = <<>>
    /\ est = NoEst
    /\ agc = PTAGC(20 * Q, 971 * Q, 2)

Init ==
    /\ \E w \in 0 .. Len(Sensors) : InitSession(w)
    /\ fn = NoCall

\* the host reads the sensor and calls preprocess on the reading: r and s
\* are what the call does on ppg and on ref
PreprocessStep(r, s) ==
    /\ ppg' = r.self
    /\ ret' = r.ret
    /\ ref' = s.self
    /\ refRet' = s.ret
    /\ op' = "preprocess"
    /\ n' = n + 1
    /\ est' = NoEst
    /\ UNCHANGED <<sensor, hrs_data, agc, fn>>

DoPreprocess ==
    \E spl \in Readings(sensor, n) :
        PreprocessStep(Preprocess(ppg, spl), Preprocess(ref, spl))

\* the host calls get_heart_rate: r and s are what the call does on ppg
\* and on ref
GetHeartRateStep(r, s) ==
    /\ ppg' = r.self
    /\ ret' = r.ret
    /\ ref' = s.self
    /\ refRet' = s.ret
    /\ hrs_data' = hrs_data \o r.dump
    /\ est' = r.est
    /\ op' = "get_heart_rate"
    /\ UNCHANGED <<sensor, n, agc, fn>>

DoGetHeartRate == GetHeartRateStep(GetHeartRate(ppg), GetHeartRate(ref))

\* the host calls enable_debug (on ppg only)
DoEnableDebug ==
    /\ n <= MaxEnableAt
    /\ ppg' = EnableDebug(ppg)
    /\ op' = "enable_debug"
    /\ UNCHANGED <<ref, ret, refRet, sensor, n, hrs_data, est, agc, fn>>

Next == DoPreprocess \/ DoGetHeartRate \/ DoEnableDebug

Spec == Init /\ [][Next]_vars

-----------------------------------------------------------------------------
(* A PTAGC object stepped on its own: SpecAgc *)

\* the samples handed to PTAGC.step (fixed-point: 40500 is 40.5)
AgcSamples ==
    {-45000, -40500, -15000, 0, 15000, 19420, 40000, 40500, 45000}

InitAgc ==
    /\ InitSession(0)
    /\ fn = NoCall

\* one call agc.step(spl), r what it does; fn records the call: its
\* argument, the peak before it, the value returned, the calls so far
AgcStepCall(spl, k, r) ==
    /\ k < MaxAgcSteps
    /\ agc' = r.self
    /\ fn' = [name |-> "agc_step", spl |-> spl, peak |-> agc.peak,
              y |-> r.y, k |-> k + 1]
    /\ UNCHANGED <<ppg, ref, ret, refRet, op, sensor, n, hrs_data, est>>

DoAgcStep ==
    \E spl \in AgcSamples :
        AgcStepCall(spl, IF fn.name = "none" THEN 0 ELSE fn.k,
                    AgcStep(agc, spl))

NextAgc == DoAgcStep

SpecAgc == InitAgc /\ [][NextAgc]_vars

-----------------------------------------------------------------------------
(* compare and trough called on small buffers: SpecFn *)

\* the values of the buffers: both ends of the signed 8-bit range, and 0
FnValues == {-128, 0, 127}

\* the buffers: every sequence of FnValues of length MaxFnLen - 1 or MaxFnLen
FnBuffers ==
    UNION {[1 .. len -> FnValues] : len \in (MaxFnLen - 1) .. MaxFnLen}

InitFn ==
    /\ InitSession(0)
    /\ fn \in {[name |-> "buffer", d |-> d] : d \in FnBuffers}

\* one call compare(d, shift), z its result
CompareCall(d, shift, z) ==
    /\ fn' = [name |-> "compare", d |-> d, shift |-> shift, z |-> z]
    /\ UNCHANGED <<ppg, ref, ret, refRet, op, sensor, n, hrs_data, est, agc>>

DoCompare ==
    /\ fn.name = "buffer"
    /\ \E shift \in 1 .. Len(fn.d) + 1 :
        CompareCall(fn.d, shift, compare(fn.d, shift))

\* one call trough(d, mn, mx), r its result
TroughCall(d, mn, mx, r) ==
    /\ fn' = [name |-> "trough", d |-> d, mn |-> mn, mx |-> mx,
              t |-> r.t, ev |-> r.ev]
    /\ UNCHANGED <<ppg, ref, ret, refRet, op, sensor, n, hrs_data, est, agc>>

\* mn starts at 3, so that every shift evaluated is at least 1
DoTrough ==
    /\ fn.name = "buffer"
    /\ \E mn \in 3 .. Len(fn.d) + 1 :
        \E mx \in mn - 1 .. Len(fn.d) + 2 :
            TroughCall(fn.d, mn, mx, trough(fn.d, mn, mx))

NextFn == DoCompare \/ DoTrough

SpecFn == InitFn /\ [][NextFn]_vars

-----------------------------------------------------------------------------
(* Claims on the session (Spec) *)

\* C1: a get_heart_rate call made while fewer than 200 samples are buffered
\* returns None and leaves the sample buffer as it was.
C1_ShortCallKeepsBuffer ==
    [][(op' = "get_heart_rate" /\ Len(ppg.data) < 200)
        => (ret' = None /\ ppg'.data = ppg.data)]_vars

\* C1 witness: get_heart_rate was called on 199 buffered samples
C1_Witness ==
    /\ op = "get_heart_rate"
    /\ est.stage = "short"
    /\ Len(ppg.data) = 199
    /\ ret = None

\* C2: a get_heart_rate call made with at least 200 samples buffered leaves
\* the buffer empty, whatever it returns; and a second call right after it
\* returns None.
C2_CallClearsBuffer ==
    [][/\ (op' = "get_heart_rate" /\ Len(ppg.data) >= 200)
            => Len(ppg'.data) = 0
       /\ (op = "get_heart_rate" /\ est.stage # "short"
              /\ op' = "get_heart_rate")
            => ret' = None]_vars

\* C2 witness: the second of two calls in a row, the first of which ran the
\* estimator on 200 samples or more and emptied the buffer
C2_Witness ==
    /\ op = "get_heart_rate"
    /\ est.stage = "short"
    /\ est.len = 0
    /\ n >= 200
    /\ ret = None

\* C3: every preprocess call appends exactly one element to the buffer,
\* leaves the earlier elements alone and returns the integer it appended;
\* the gain control's peak stays positive, so no call divides by zero.
C3_PreprocessAppendsOne ==
    [][op' = "preprocess"
        => /\ Len(ppg'.data) = Len(ppg.data) + 1
           /\ SubSeq(ppg'.data, 1, Len(ppg.data)) = ppg.data
           /\ ret' = Some(ppg'.data[Len(ppg'.data)])
           /\ ppg'.agc.peak > 0]_vars

\* C3 witness: preprocess has returned a non-zero sample, now the last of
\* several in the buffer
C3_Witness ==
    /\ op = "preprocess"
    /\ Len(ppg.data) >= 3
    /\ ret = Some(ppg.data[Len(ppg.data)])
    /\ ret # Some(0)

\* the dissimilarity of buffer d at every shift the estimator can reach
Curve(d) == [s \in 1 .. 210 |-> compare(d, s)] \o <<>>

\* the first shift i of mn .. mx with z[i-2] > z[i-1] < z[i], or -1
FirstTrough(z, mn, mx) ==
    LET S == {i \in mn .. mx : z[i - 2] > z[i - 1] /\ z[i - 1] < z[i]}
    IN  IF S = {} THEN -1 ELSE CHOOSE i \in S : \A j \in S : i <= j

\* what C4 says get_heart_rate returns, z being the dissimilarity curve
ExpectedRate(z) ==
    LET t0 == FirstTrough(z, 7, 48)
        t1 == FirstTrough(z, 2 * t0 - 5, 2 * t0 + 5)
        t2 == FirstTrough(z, (3 * t1) \div 2 - 5, (3 * t1) \div 2 + 4)
        t3 == FirstTrough(z, (4 * t2) \div 3 - 4, (4 * t2) \div 3 + 4)
    IN  IF t0 < 0 THEN None
        ELSE IF t1 < 0 THEN None
        ELSE IF t2 < 0 THEN None
        ELSE IF t3 < 0 THEN Some((60 * 24 * 3) \div t2)
        ELSE Some((60 * 24 * 4) \div t3)

\* C4: with at least 200 samples buffered, get_heart_rate returns None when
\* the trough search fails at t0 (7..48), t1 ([2*t0-5, 2*t0+5]) or t2
\* ([(3*t1)//2-5, (3*t1)//2+4]); else (60*24*4)//t3 when a trough t3 is
\* found in [(4*t2)//3-4, (4*t2)//3+4], and (60*24*3)//t2 when it is not.
C4_RateByStage ==
    [][(op' = "get_heart_rate" /\ Len(ppg.data) >= 200)
        => ret' = ExpectedRate(Curve(ppg.data))]_vars

\* C4 witness: the fourth search failed and the rate was computed from t2
C4_Witness ==
    /\ op = "get_heart_rate"
    /\ est.stage = "t2"
    /\ est.t[4] = -1
    /\ ret = Some((60 * 24 * 3) \div est.t[3])

C10_ShiftsInsideBuffer ==
    est.stage \notin {"none", "short"}
        => \A s \in est.ev : 1 <= s /\ s <= est.len - 1

-----------------------------------------------------------------------------
(* Claims on the gain control (SpecAgc) *)

\* the peak C8 says the step stores: the old peak times boost when the
\* sample's magnitude exceeds it, times decay otherwise
C8_UpdatedPeak ==
    IF Abs(fn.spl) > fn.peak
    THEN Mul(agc.boost, fn.peak)
    ELSE Mul(agc.decay, fn.peak)

\* C8: an AGC step first updates the peak; a sample outside
\* [-peak*threshold, +peak*threshold] of the updated peak then yields exactly
\* 0 with the updated peak stored, any other sample 100*sample/(2*peak).
C8_AgcStep ==
    fn.name = "agc_step"
        => /\ agc.peak = C8_UpdatedPeak
           /\ IF \/ fn.spl > C8_UpdatedPeak * 2
                 \/ fn.spl < -(C8_UpdatedPeak * 2)
              THEN fn.y = 0
              ELSE fn.y = Gain(fn.spl, C8_UpdatedPeak)

\* C8 witness: a sample was rejected (output 0) by a step that raised the
\* peak all the same
C8_Witness ==
    /\ fn.name = "agc_step"
    /\ fn.spl > agc.peak * 2
    /\ fn.y = 0
    /\ agc.peak > fn.peak

-----------------------------------------------------------------------------
(* Claims on compare and trough (SpecFn) *)

\* the sum of (d[i+shift] - d[i])^2 over the first k overlapping indices
RECURSIVE SumSquares(_, _, _)
SumSquares(d, shift, k) ==
    IF k <= 0
    THEN 0
    ELSE (d[k + shift] - d[k]) * (d[k + shift] - d[k])
         + SumSquares(d, shift, k - 1)

\* C6: for a shift in [1, len-1], the dissimilarity is the sum of
\* (buffer[i+shift] - buffer[i])^2 over the overlapping indices; it is not
\* negative, and 0 when buffer[i+shift] = buffer[i] for all of them.
C6_CompareIsSumOfSquares ==
    (fn.name = "compare" /\ fn.shift >= 1 /\ fn.shift <= Len(fn.d) - 1)
        => /\ fn.z = SumSquares(fn.d, fn.shift, Len(fn.d) - fn.shift)
           /\ fn.z >= 0
           /\ (\A i \in 1 .. Len(fn.d) - fn.shift : fn.d[i + fn.shift] = fn.d[i])
                => fn.z = 0

\* C6 witness: compare returned 0 for a buffer that repeats with period
\* shift and holds both -128 and 127
C6_Witness ==
    /\ fn.name = "compare"
    /\ fn.shift >= 2 /\ fn.shift <= Len(fn.d) - 2
    /\ fn.z = 0
    /\ fn.d[1] = -128 /\ fn.d[2] = 127

\* the dissimilarity curve of d has a strict local minimum at shift m, both
\* neighbours of m being shifts the metric is defined at
StrictMinimumAt(d, m) ==
    /\ 2 <= m /\ m <= Len(d) - 2
    /\ compare(d, m - 1) > compare(d, m)
    /\ compare(d, m) < compare(d, m + 1)

\* m is the only strict local minimum of the dissimilarity curve of d
SingleMinimumAt(d, m) ==
    /\ StrictMinimumAt(d, m)
    /\ \A k \in 2 .. Len(d) - 2 : StrictMinimumAt(d, k) => k = m

\* C5: with a single strict local minimum at m and
\* min_shift <= m <= max_shift, find_trough returns m.
C5_ReturnsMinimum ==
    fn.name = "trough"
        => \A m \in fn.mn .. fn.mx :
              SingleMinimumAt(fn.d, m) => fn.t = m

\* what trough does there: with a single strict local minimum at m and
\* min_shift - 1 <= m <= max_shift - 1 it returns m + 1, the shift after
\* the minimum
TroughReturnsShiftAfterMinimum ==
    fn.name = "trough"
        => \A m \in fn.mn - 1 .. fn.mx - 1 :
              SingleMinimumAt(fn.d, m) => fn.t = m + 1

\* the loop of trough reports shift i: the dissimilarity at i - 1 is
\* strictly below the ones at i - 2 and at i
ReportsAt(d, i) ==
    /\ compare(d, i - 2) > compare(d, i - 1)
    /\ compare(d, i - 1) < compare(d, i)

\* C9: the minimum a result stands for (the one at result - 1) lies
\* within [min_shift, max_shift], never at min_shift - 1.
C9_MinimumInsideRange ==
    (fn.name = "trough" /\ fn.t # -1)
        => (fn.mn <= fn.t - 1 /\ fn.t - 1 <= fn.mx)

\* what trough does there: a result r is the first shift of
\* [min_shift, max_shift] with a strict local minimum at r - 1, and the
\* result is -1 when there is no such shift
TroughResultIsAfterStrictMinimum ==
    fn.name = "trough"
        => /\ fn.t # -1
              => /\ fn.mn <= fn.t /\ fn.t <= fn.mx
                 /\ ReportsAt(fn.d, fn.t)
                 /\ \A i \in fn.mn .. fn.t - 1 : ~ReportsAt(fn.d, i)
           /\ fn.t = -1
              => \A i \in fn.mn .. fn.mx : ~ReportsAt(fn.d, i)

=============================================================================
